---- MODULE Spec2Model ----
(***************************************************************************)
(* The RFC 2136 dynamic-update client of certbot-dns-rfc2136               *)
(* (certbot_dns_rfc2136/dns_rfc2136.py): the Authenticator hooks           *)
(* _perform/_cleanup, _RFC2136Client.add_txt_record, del_txt_record and    *)
(* _find_domain, run against a name server that keeps a set of TXT         *)
(* records.                                                                *)
(*                                                                         *)
(* A textual domain name is the sequence of its dot-separated fragments    *)
(* ("a.b" is <<"a","b">>, "a.b." is <<"a","b","">>, "a..b" is              *)
(* <<"a","","b">>); a parsed name is the sequence of its labels, absolute  *)
(* when the last label is the empty root label, as in dns.name.Name.       *)
(***************************************************************************)
EXTENDS Integers, Sequences, FiniteSets, TLC

VARIABLES
    zone,      \* the server: the TXT records it holds, <<owner, ttl, text>>
    pc,        \* per caller: "idle", "find", "build", "send" or "done"
    call,      \* per caller: the operation and its arguments
    guesses,   \* per caller: domain_name_guesses of _find_domain
    idx,       \* per caller: position of the for loop of _find_domain
    probes,    \* per caller: the SOA queries sent so far, with their outcomes
    domain,    \* per caller: the value _find_domain returned
    update,    \* per caller: the dns.update.Update built
    sent,      \* per caller: the updates handed to dns.query.tcp, with outcomes
    result,    \* per caller: how the call ended, as its caller sees it
    zone0,     \* per caller: the server's records when the call began
    prev,      \* per caller: the call completed before the current one
    ncalls,    \* per caller: the number of calls completed and returned from
    credentials, \* Authenticator.credentials: server, name, secret, algorithm
    client,    \* per caller: the _RFC2136Client: server, keyring, algorithm
    exim       \* the Exim installer: the system path, and the calls made

vars == <<zone, pc, call, guesses, idx, probes, domain, update, sent, result, zone0, prev,
          ncalls, credentials, client, exim>>

(***************************************************************************)
(* Bounds and input sets                                                   *)
(***************************************************************************)
MaxLabels == 3
MaxCalls == 2

Procs == {1, 2}

\* Labels from the top-level domain downwards.
LabelPool == <<"com", "example", "www", "dev", "eu">>
ChallengeLabel == "_acme-challenge"

\* The host name of n labels: Host(3) is www.example.com.
Host(n) == [i \in 1..n |-> LabelPool[n + 1 - i]]
Hosts == {Host(n) : n \in 1..MaxLabels}

Validations == {"tokenA", "tokenB"}

\* Authenticator.ttl
ttl == 120
OtherTtl == ttl + 180
TTLs == {0, ttl}

root == <<"">>

(***************************************************************************)
(* Names (dnspython, as the client uses it)                                *)
(***************************************************************************)

\* dns.name.from_text(text), origin the root: every fragment followed by a
\* dot must be non-empty (EmptyLabel otherwise); a name not ending in a dot
\* gets the root appended, so the result is always absolute.
from_text(text) ==
    IF text = <<"">> \/ text = <<"", "">>
    THEN [ok |-> TRUE, labels |-> root]
    ELSE IF \E i \in 1..(Len(text) - 1) : text[i] = ""
    THEN [ok |-> FALSE, labels |-> <<>>]
    ELSE IF text[Len(text)] = ""
    THEN [ok |-> TRUE, labels |-> text]
    ELSE [ok |-> TRUE, labels |-> Append(text, "")]

\* dns.name.Name.is_absolute
is_absolute(n) == Len(n) > 0 /\ n[Len(n)] = ""

\* dns.name.Name.is_subdomain: o is a suffix of n.
is_subdomain(n, o) ==
    /\ Len(o) <= Len(n)
    /\ SubSeq(n, Len(n) - Len(o) + 1, Len(n)) = o

relativize_keep(n, o) == n

relativize_one_short(n, o) ==
    IF is_subdomain(n, o) THEN SubSeq(n, 1, Len(n) - Len(o) + 1) ELSE n

\* n.relativize(o): n without the labels of o when n is a subdomain of o,
\* else n itself.
relativize(n, o) ==
    IF is_subdomain(n, o) THEN SubSeq(n, 1, Len(n) - Len(o)) ELSE n

\* The name of the dns-01 TXT record of a certificate domain.
validation_domain_name(d) == <<ChallengeLabel>> \o d

\* The text of a name without a trailing dot.
strip_root(text) ==
    IF Len(text) > 1 /\ text[Len(text)] = "" THEN SubSeq(text, 1, Len(text) - 1) ELSE text

\* dns_common.base_domain_name_guesses: the name without the challenge label,
\* then each of its suffixes, the most specific first.
base_domain_name_guesses(text) ==
    LET t == strip_root(text)
        b == IF Len(t) > 1 /\ t[1] = ChallengeLabel THEN Tail(t) ELSE t
    IN  [i \in 1..Len(b) |-> SubSeq(b, i, Len(b))]

(***************************************************************************)
(* Messages                                                                *)
(***************************************************************************)
NOERROR == "NOERROR"
Rcodes == {NOERROR, "REFUSED", "NOTAUTH", "NOTZONE"}

\* dns.message.make_query sets Recursion-Desired by default.
make_query_flags == {"RD"}

set_RD(flags) == flags \cup {"RD"}

\* request.flags ^= dns.flags.RD
toggle_RD(flags) == (flags \ {"RD"}) \cup ({"RD"} \ flags)

\* What dns.query.udp gives back: a response, or an exception.
ProbeResponses ==
    [kind : {"response"}, rcode : {NOERROR, "NXDOMAIN"}, answer : {0, 1}, aa : BOOLEAN]
TransportFailure == [kind |-> "exception", rcode |-> "none", answer |-> 0, aa |-> FALSE]
ProbeOutcomes == ProbeResponses \cup {TransportFailure}

authoritative_ignoring_aa(r) ==
    r.rcode = NOERROR /\ r.answer > 0

\* rcode == NOERROR and len(response.answer) > 0 and response.flags & AA
authoritative(r) ==
    r.rcode = NOERROR /\ r.answer > 0 /\ r.aa

NoUpdate == [zone |-> <<>>, op |-> "none", name |-> <<>>, ttl |-> 0, text |-> "",
             keyring |-> <<>>, keyalgorithm |-> ""]

update_add_replacing(o, rel, record_ttl, content) ==
    [zone |-> o, op |-> "replace", name |-> rel, ttl |-> record_ttl, text |-> content]

\* dns.update.Update(domain, ...) followed by update.add(rel, ttl, TXT, content)
update_add(o, rel, record_ttl, content) ==
    [zone |-> o, op |-> "add", name |-> rel, ttl |-> record_ttl, text |-> content]

update_delete_rrset(o, rel, content) ==
    [zone |-> o, op |-> "delete_rrset", name |-> rel, ttl |-> 0, text |-> ""]

update_delete_at_apex(o, rel, content) ==
    [zone |-> o, op |-> "delete", name |-> <<>>, ttl |-> 0, text |-> content]

\* dns.update.Update(domain, ...) followed by update.delete(rel, TXT, content)
update_delete(o, rel, content) ==
    [zone |-> o, op |-> "delete", name |-> rel, ttl |-> 0, text |-> content]

\* dns.update.Update(domain, keyring=self.keyring, keyalgorithm=self.algorithm):
\* the update m is signed with the key and the algorithm of client c.
with_tsig(m, c) ==
    [zone |-> m.zone, op |-> m.op, name |-> m.name, ttl |-> m.ttl, text |-> m.text,
     keyring |-> c.keyring, keyalgorithm |-> c.algorithm]

(***************************************************************************)
(* The server: RFC 2136 processing of one update                           *)
(***************************************************************************)
\* The owner name of the update's record: a relative name is taken
\* relative to the zone of the update.
owner(m) == IF is_absolute(m.name) THEN m.name ELSE m.name \o m.zone

in_zone(m) == is_subdomain(owner(m), m.zone)

\* RFC 2136 3.4.2: an added record replaces a record of the same name and
\* data; deleting a record that is not there changes nothing; a replacement
\* deletes the records of the name and adds one.
server_apply(z, m) ==
    LET same == {r \in z : r[1] = owner(m) /\ r[3] = m.text}
        at   == {r \in z : r[1] = owner(m)}
    IN  CASE m.op = "add" -> (z \ same) \cup {<<owner(m), m.ttl, m.text>>}
          [] m.op = "delete" -> z \ same
          [] m.op = "delete_rrset" -> z \ at
          [] m.op = "replace" -> (z \ at) \cup {<<owner(m), m.ttl, m.text>>}
          [] OTHER -> z

\* What dns.query.tcp may give back for update m: a response (NOERROR only
\* for an update inside its zone, which the server then has applied), or an
\* exception, raised before the server saw the update or after it applied it.
UpdateOutcomes ==
    [kind : {"response"}, rcode : Rcodes, applied : BOOLEAN]
        \cup [kind : {"exception"}, rcode : {"none"}, applied : BOOLEAN]

server_may(m, o) ==
    /\ o.applied => in_zone(m)
    /\ o.kind = "response" => (o.applied <=> o.rcode = NOERROR)
    /\ o.kind = "response" /\ ~in_zone(m) => o.rcode # NOERROR

(***************************************************************************)
(* The client                                                              *)
(***************************************************************************)
\* dns.tsig.HMAC_MD5 ... HMAC_SHA512: the names dnspython signs with.
HMAC_MD5 == "HMAC-MD5.SIG-ALG.REG.INT"
HMAC_SHA1 == "hmac-sha1"
HMAC_SHA224 == "hmac-sha224"
HMAC_SHA256 == "hmac-sha256"
HMAC_SHA384 == "hmac-sha384"
HMAC_SHA512 == "hmac-sha512"

\* _RFC2136Client.ALGORITHMS
ALGORITHMS ==
    [a \in {"HMAC-MD5", "HMAC-SHA1", "HMAC-SHA224", "HMAC-SHA256", "HMAC-SHA384",
             "HMAC-SHA512"} |->
        CASE a = "HMAC-MD5" -> HMAC_MD5
          [] a = "HMAC-SHA1" -> HMAC_SHA1
          [] a = "HMAC-SHA224" -> HMAC_SHA224
          [] a = "HMAC-SHA256" -> HMAC_SHA256
          [] a = "HMAC-SHA384" -> HMAC_SHA384
          [] a = "HMAC-SHA512" -> HMAC_SHA512]

algorithm_or_sha1(key_algorithm) ==
    IF key_algorithm \in DOMAIN ALGORITHMS THEN ALGORITHMS[key_algorithm] ELSE HMAC_SHA1

\* self.ALGORITHMS.get(key_algorithm, dns.tsig.HMAC_MD5)
algorithm_get(key_algorithm) ==
    IF key_algorithm \in DOMAIN ALGORITHMS THEN ALGORITHMS[key_algorithm] ELSE HMAC_MD5

\* dns.tsigkeyring.from_text({key_name: key_secret}): one key, its name
\* made absolute.
keyring_from_text(key_name, key_secret) ==
    <<[name |-> Append(key_name, ""), secret |-> key_secret]>>

\* _RFC2136Client.__init__
RFC2136Client(server, key_name, key_secret, key_algorithm) ==
    [server |-> server, keyring |-> keyring_from_text(key_name, key_secret),
     algorithm |-> algorithm_get(key_algorithm)]

\* Authenticator._get_rfc2136_client
get_rfc2136_client ==
    RFC2136Client(credentials.server, credentials.name, credentials.secret,
                  credentials.algorithm)

NoCall == [op |-> "none", domain_name |-> <<>>, record_name |-> <<>>,
           record_content |-> "", record_ttl |-> 0]
NoResult == [kind |-> "none", cause |-> "none", name |-> <<>>, names |-> <<>>]
NoPrev == [op |-> "none", record_name |-> <<>>, record_content |-> "",
           noerror |-> FALSE, zone0 |-> {}]

\* The call returned normally.
returned == [kind |-> "ok", cause |-> "none", name |-> <<>>, names |-> <<>>]

\* errors.PluginError('Encountered error ...: {0}'.format(e))
plugin_error(c) == [kind |-> "PluginError", cause |-> c, name |-> <<>>, names |-> <<>>]

\* An exception of dnspython that no handler of the client catches.
raw_error(c) == [kind |-> "dns.exception", cause |-> c, name |-> <<>>, names |-> <<>>]

exhausted_error_last_only(domain_name, domain_name_guesses) ==
    [kind |-> "PluginError", cause |-> "no base domain", name |-> domain_name,
     names |-> <<domain_name_guesses[Len(domain_name_guesses)]>>]

\* errors.PluginError('Unable to determine base domain for {0} using names: {1}.')
exhausted_error(domain_name, domain_name_guesses) ==
    [kind |-> "PluginError", cause |-> "no base domain", name |-> domain_name,
     names |-> domain_name_guesses]

after_probe_retrying(r) ==
    IF r.kind = "exception" THEN "continue"
    ELSE IF authoritative(r) THEN "return" ELSE "continue"

after_probe_accepting_any(r) ==
    IF r.kind = "exception" THEN "raise" ELSE "return"

\* The body of the try statement of _find_domain: what one probe leads to.
after_probe(r) ==
    IF r.kind = "exception" THEN "raise"
    ELSE IF authoritative(r) THEN "return" ELSE "continue"

next_guess_skipping(i) == i + 2

next_guess_again(i) == i

\* The for loop of _find_domain moves to the next guess.
next_guess(i) == i + 1

\* The try statement of add_txt_record and del_txt_record: the response code
\* is only logged, an exception becomes a PluginError.
after_update(o) ==
    IF o.kind = "exception" THEN plugin_error("update") ELSE returned

\* The entry of add_txt_record and del_txt_record up to the first query of
\* _find_domain.
begin(p, op, domain_name, record_name, record_content, record_ttl) ==
    /\ pc[p] = "idle"
    /\ ncalls[p] < MaxCalls
    /\ call' = [call EXCEPT ![p] =
                  [op |-> op, domain_name |-> domain_name, record_name |-> record_name,
                   record_content |-> record_content, record_ttl |-> record_ttl]]
    /\ guesses' = [guesses EXCEPT ![p] = base_domain_name_guesses(domain_name)]
    /\ idx' = [idx EXCEPT ![p] = 1]
    /\ zone0' = [zone0 EXCEPT ![p] = zone]
    /\ pc' = [pc EXCEPT ![p] = "find"]
    /\ UNCHANGED <<zone, probes, domain, update, sent, result, prev, ncalls>>
    /\ UNCHANGED <<credentials, exim>>

add_txt_record(p, domain_name, record_name, record_content, record_ttl) ==
    begin(p, "add", domain_name, record_name, record_content, record_ttl)

del_txt_record(p, domain_name, record_name, record_content) ==
    begin(p, "del", domain_name, record_name, record_content, 0)

\* Authenticator._perform
Perform(p, d, validation) ==
    /\ add_txt_record(p, d, validation_domain_name(d), validation, ttl)
    /\ client' = [client EXCEPT ![p] = get_rfc2136_client]

\* Authenticator._cleanup
Cleanup(p, d, validation) ==
    /\ del_txt_record(p, d, validation_domain_name(d), validation)
    /\ client' = [client EXCEPT ![p] = get_rfc2136_client]

\* One iteration of the for loop of _find_domain; r is what dns.query.udp
\* gives back.
find_domain_step(p, r) ==
    /\ pc[p] = "find"
    /\ idx[p] <= Len(guesses[p])
    /\ LET guess == guesses[p][idx[p]]
           q == from_text(guess)
           request == [guess |-> guess, qname |-> q.labels, rdtype |-> "SOA",
                       flags |-> toggle_RD(make_query_flags), outcome |-> r]
       IN  IF ~q.ok
           THEN /\ result' = [result EXCEPT ![p] = raw_error("from_text")]
                /\ pc' = [pc EXCEPT ![p] = "done"]
                /\ UNCHANGED <<probes, domain, idx>>
           ELSE /\ probes' = [probes EXCEPT ![p] = Append(@, request)]
                /\ CASE after_probe(r) = "return" ->
                          /\ domain' = [domain EXCEPT ![p] = guess]
                          /\ pc' = [pc EXCEPT ![p] = "build"]
                          /\ UNCHANGED <<result, idx>>
                     [] after_probe(r) = "continue" ->
                          /\ idx' = [idx EXCEPT ![p] = next_guess(@)]
                          /\ UNCHANGED <<result, domain, pc>>
                     [] OTHER ->
                          /\ result' = [result EXCEPT ![p] = plugin_error("query")]
                          /\ pc' = [pc EXCEPT ![p] = "done"]
                          /\ UNCHANGED <<domain, idx>>
    /\ UNCHANGED <<zone, call, guesses, update, sent, zone0, prev, ncalls>>
    /\ UNCHANGED <<credentials, client, exim>>

\* The for loop of _find_domain ended without a return.
find_domain_exhausted(p) ==
    /\ pc[p] = "find"
    /\ idx[p] > Len(guesses[p])
    /\ result' = [result EXCEPT ![p] = exhausted_error(call[p].domain_name, guesses[p])]
    /\ pc' = [pc EXCEPT ![p] = "done"]
    /\ UNCHANGED <<zone, call, guesses, idx, probes, domain, update, sent, zone0, prev,
                   ncalls>>
    /\ UNCHANGED <<credentials, client, exim>>

\* add_txt_record and del_txt_record between _find_domain and the try
\* statement: the names are parsed and the update is built.
build_update(p) ==
    /\ pc[p] = "build"
    /\ LET n == from_text(call[p].record_name)
           o == from_text(domain[p])
           rel == relativize(n.labels, o.labels)
       IN  IF ~n.ok \/ ~o.ok
           THEN /\ result' = [result EXCEPT ![p] = raw_error("from_text")]
                /\ pc' = [pc EXCEPT ![p] = "done"]
                /\ UNCHANGED update
           ELSE /\ update' = [update EXCEPT ![p] = with_tsig(
                      IF call[p].op = "add"
                      THEN update_add(o.labels, rel, call[p].record_ttl,
                                      call[p].record_content)
                      ELSE update_delete(o.labels, rel, call[p].record_content),
                      client[p])]
                /\ pc' = [pc EXCEPT ![p] = "send"]
                /\ UNCHANGED result
    /\ UNCHANGED <<zone, call, guesses, idx, probes, domain, sent, zone0, prev, ncalls>>
    /\ UNCHANGED <<credentials, client, exim>>

send_update_rekeying(p, o) ==
    /\ pc[p] = "send"
    /\ server_may(update[p], o)
    /\ sent' = [sent EXCEPT ![p] =
                  Append(@, [msg |-> update[p], to |-> client[p].server, outcome |-> o])]
    /\ zone' = IF o.applied THEN server_apply(zone, update[p]) ELSE zone
    /\ result' = [result EXCEPT ![p] = after_update(o)]
    /\ pc' = [pc EXCEPT ![p] = "done"]
    /\ client' = [client EXCEPT ![p].algorithm =
                    IF o.kind = "exception" THEN HMAC_MD5 ELSE @]
    /\ UNCHANGED <<call, guesses, idx, probes, domain, update, zone0, prev, ncalls>>
    /\ UNCHANGED <<credentials, exim>>

\* The try statement of add_txt_record and del_txt_record; o is what
\* dns.query.tcp gives back, and what the server did with the update.
send_update(p, o) ==
    /\ pc[p] = "send"
    /\ server_may(update[p], o)
    /\ sent' = [sent EXCEPT ![p] =
                  Append(@, [msg |-> update[p], to |-> client[p].server, outcome |-> o])]
    /\ zone' = IF o.applied THEN server_apply(zone, update[p]) ELSE zone
    /\ result' = [result EXCEPT ![p] = after_update(o)]
    /\ pc' = [pc EXCEPT ![p] = "done"]
    /\ UNCHANGED <<call, guesses, idx, probes, domain, update, zone0, prev, ncalls>>
    /\ UNCHANGED <<credentials, client, exim>>

\* The server answered the update of the call with NOERROR.
got_noerror(p) ==
    /\ Len(sent[p]) > 0
    /\ sent[p][Len(sent[p])].outcome.kind = "response"
    /\ sent[p][Len(sent[p])].outcome.rcode = NOERROR

\* The caller is back from the call and may make another one.
Return(p) ==
    /\ pc[p] = "done"
    /\ ncalls[p] + 1 < MaxCalls
    /\ prev' = [prev EXCEPT ![p] =
                  [op |-> call[p].op, record_name |-> call[p].record_name,
                   record_content |-> call[p].record_content,
                   noerror |-> got_noerror(p), zone0 |-> zone0[p]]]
    /\ ncalls' = [ncalls EXCEPT ![p] = @ + 1]
    /\ pc' = [pc EXCEPT ![p] = "idle"]
    /\ call' = [call EXCEPT ![p] = NoCall]
    /\ guesses' = [guesses EXCEPT ![p] = <<>>]
    /\ idx' = [idx EXCEPT ![p] = 1]
    /\ probes' = [probes EXCEPT ![p] = <<>>]
    /\ domain' = [domain EXCEPT ![p] = <<>>]
    /\ update' = [update EXCEPT ![p] = NoUpdate]
    /\ sent' = [sent EXCEPT ![p] = <<>>]
    /\ result' = [result EXCEPT ![p] = NoResult]
    /\ zone0' = [zone0 EXCEPT ![p] = {}]
    /\ UNCHANGED <<zone, credentials, client, exim>>

(***************************************************************************)
(* Specifications                                                          *)
(***************************************************************************)
InitCallers ==
    /\ pc = [p \in Procs |-> "idle"]
    /\ call = [p \in Procs |-> NoCall]
    /\ guesses = [p \in Procs |-> <<>>]
    /\ idx = [p \in Procs |-> 1]
    /\ probes = [p \in Procs |-> <<>>]
    /\ domain = [p \in Procs |-> <<>>]
    /\ update = [p \in Procs |-> NoUpdate]
    /\ sent = [p \in Procs |-> <<>>]
    /\ result = [p \in Procs |-> NoResult]
    /\ zone0 = [p \in Procs |-> {}]
    /\ prev = [p \in Procs |-> NoPrev]
    /\ ncalls = [p \in Procs |-> 0]

\* The credentials file is read and each caller holds a client made from it.
InitConfig(cs) ==
    /\ credentials \in cs
    /\ client = [p \in Procs |-> get_rfc2136_client]

DefaultCredentials ==
    [server |-> "192.0.2.1", name |-> <<"keyname">>, secret |-> "c2VjcmV0",
     algorithm |-> "HMAC-SHA512"]

\* The installer is not used.
NoExim == [path |-> {}, restart_cmd |-> "", log |-> <<>>]

\* The names a caller passes. As the name to find the zone of: a host name,
\* the name of its dns-01 record, or a name with an empty label. As the
\* record name: the name of the dns-01 record of a host, the same written
\* with a trailing dot, or a name with an empty label.
AbsRecordName == Append(validation_domain_name(Host(MaxLabels)), "")
BadName == <<LabelPool[2], "", LabelPool[1]>>
RecordNames == {validation_domain_name(h) : h \in Hosts}
DomainTexts == Hosts \cup RecordNames \cup {BadName}
RecordTexts == RecordNames \cup {AbsRecordName, BadName}

\* One call of one caller, with any arguments, against a server that holds
\* no TXT record yet.
Init ==
    /\ zone = {}
    /\ InitCallers
    /\ InitConfig({DefaultCredentials})
    /\ exim = NoExim

Next ==
    \/ \E d \in Hosts, v \in Validations : Perform(1, d, v)
    \/ \E d \in Hosts, v \in Validations : Cleanup(1, d, v)
    \/ \E dn \in DomainTexts, rn \in RecordTexts, v \in Validations, t \in TTLs :
          add_txt_record(1, dn, rn, v, t) /\ UNCHANGED client
    \/ \E dn \in DomainTexts, rn \in RecordTexts, v \in Validations :
          del_txt_record(1, dn, rn, v) /\ UNCHANGED client
    \/ \E r \in ProbeOutcomes : find_domain_step(1, r)
    \/ find_domain_exhausted(1)
    \/ build_update(1)
    \/ \E o \in UpdateOutcomes : send_update(1, o)

Spec == Init /\ [][Next]_vars

\* A caller making one _perform or _cleanup after the other, against a
\* server that already holds any of the records of SeqRecords, for the
\* hosts com and example.com. Each probe is
\* answered authoritatively, answered with a name error, or fails.
SeqHosts == {Host(1), Host(2)}
SeqRecords ==
    {<<Append(validation_domain_name(h), ""), OtherTtl, v>> : h \in SeqHosts, v \in Validations}
SeqProbeOutcomes ==
    {[kind |-> "response", rcode |-> NOERROR, answer |-> 1, aa |-> TRUE],
     [kind |-> "response", rcode |-> "NXDOMAIN", answer |-> 0, aa |-> FALSE],
     TransportFailure}

InitSeq ==
    /\ zone \in SUBSET SeqRecords
    /\ InitCallers
    /\ InitConfig({DefaultCredentials})
    /\ exim = NoExim

NextSeq ==
    \/ \E d \in SeqHosts, v \in Validations : Perform(1, d, v)
    \/ \E d \in SeqHosts, v \in Validations : Cleanup(1, d, v)
    \/ \E r \in SeqProbeOutcomes : find_domain_step(1, r)
    \/ find_domain_exhausted(1)
    \/ build_update(1)
    \/ \E o \in UpdateOutcomes : send_update(1, o)
    \/ Return(1)

SpecSeq == InitSeq /\ [][NextSeq]_vars

\* Two callers, each making one _perform at any time, with a record name
\* and value that differ from the other caller's. The server applies each
\* update as it arrives and answers it with NOERROR.
Other(p) == CHOOSE q \in Procs : q # p
AppliedNoerror == [kind |-> "response", rcode |-> NOERROR, applied |-> TRUE]

InitConc ==
    /\ zone \in SUBSET SeqRecords
    /\ InitCallers
    /\ InitConfig({DefaultCredentials})
    /\ exim = NoExim

NextConc ==
    \/ \E p \in Procs, d \in SeqHosts, v \in Validations :
          /\ <<validation_domain_name(d), v>>
                # <<call[Other(p)].record_name, call[Other(p)].record_content>>
          /\ Perform(p, d, v)
    \/ \E p \in Procs, r \in SeqProbeOutcomes : find_domain_step(p, r)
    \/ \E p \in Procs : find_domain_exhausted(p)
    \/ \E p \in Procs : build_update(p)
    \/ \E p \in Procs : send_update(p, AppliedNoerror)

SpecConc == InitConc /\ [][NextConc]_vars

\* Two clients made from the same credentials, whose key algorithm is any
\* of the six supported names or a name that is not supported. The first
\* client makes one call after the other, the second makes one call.
AlgorithmNames ==
    DOMAIN ALGORITHMS \cup {"hmac-sha256", "HMAC-SHA3-256"}
ClientCredentials ==
    {[DefaultCredentials EXCEPT !.algorithm = a] : a \in AlgorithmNames}
ClientDomains == {Host(2)}
ClientRecords == {validation_domain_name(Host(2)), BadName}

InitClient ==
    /\ zone = {}
    /\ InitCallers
    /\ InitConfig(ClientCredentials)
    /\ exim = NoExim

NextClient ==
    \/ \E p \in Procs, dn \in ClientDomains, rn \in ClientRecords :
          add_txt_record(p, dn, rn, "tokenA", ttl) /\ UNCHANGED client
    \/ \E p \in Procs, dn \in ClientDomains, rn \in ClientRecords :
          del_txt_record(p, dn, rn, "tokenA") /\ UNCHANGED client
    \/ \E p \in Procs, r \in SeqProbeOutcomes : find_domain_step(p, r)
    \/ \E p \in Procs : find_domain_exhausted(p)
    \/ \E p \in Procs : build_update(p)
    \/ \E p \in Procs, o \in UpdateOutcomes : send_update(p, o)
    \/ Return(1)

SpecClient == InitClient /\ [][NextClient]_vars

\* One call of _perform or _cleanup for a host of one to MaxLabels labels,
\* in which every network call returns: a query or an update that has been
\* sent is eventually answered or fails, and the client goes on running.
InitLive ==
    /\ zone = {}
    /\ InitCallers
    /\ InitConfig({DefaultCredentials})
    /\ exim = NoExim

NextLive ==
    \/ \E d \in Hosts, v \in Validations : Perform(1, d, v)
    \/ \E d \in Hosts, v \in Validations : Cleanup(1, d, v)
    \/ \E r \in SeqProbeOutcomes : find_domain_step(1, r)
    \/ find_domain_exhausted(1)
    \/ build_update(1)
    \/ \E o \in UpdateOutcomes : send_update(1, o)

SpecLive ==
    /\ InitLive
    /\ [][NextLive]_vars
    /\ WF_vars(\E r \in SeqProbeOutcomes : find_domain_step(1, r))
    /\ WF_vars(find_domain_exhausted(1))
    /\ WF_vars(build_update(1))
    /\ WF_vars(\E o \in UpdateOutcomes : send_update(1, o))

(***************************************************************************)
(* The Exim installer (certbot_exim/installer.py)                          *)
(***************************************************************************)
Executables == {"exim", "service", "systemctl"}

\* util.exe_exists(restart_cmd): the command is found on the system path.
exe_exists(cmd, path) == cmd \in path

\* What util.run_script gives back: the output of the command, or a
\* SubprocessError when the command cannot be started or exits with a
\* failure. A command that is not on the path cannot be started.
ScriptOutcomes == {"output", "cannot start", "exit status"}
run_script_may(cmd, path, o) == o = "cannot start" <=> ~exe_exists(cmd, path)
run_script(o) == IF o = "output" THEN "returned" ELSE "SubprocessError"

prepare_result_always_ok(found) == "returned"

\* Installer.prepare: raise NoInstallationError unless the command exists.
prepare_result(found) == IF ~found THEN "NoInstallationError" ELSE "returned"

restart_result_reraising(ran) == ran

\* Installer.restart: a SubprocessError becomes a MisconfigurationError.
restart_result(ran) ==
    IF ran = "SubprocessError" THEN "MisconfigurationError" ELSE ran

\* Installer.prepare
prepare ==
    /\ Len(exim.log) < MaxCalls
    /\ exim' = [exim EXCEPT !.log = Append(@,
                  [op |-> "prepare", outcome |-> "none",
                   result |-> prepare_result(exe_exists(exim.restart_cmd, exim.path))])]
    /\ UNCHANGED <<zone, pc, call, guesses, idx, probes, domain, update, sent, result,
                   zone0, prev, ncalls, credentials, client>>

\* Installer.restart; o is how the restart command ran.
restart(o) ==
    /\ Len(exim.log) < MaxCalls
    /\ run_script_may(exim.restart_cmd, exim.path, o)
    /\ exim' = [exim EXCEPT !.log = Append(@,
                  [op |-> "restart", outcome |-> o,
                   result |-> restart_result(run_script(o))])]
    /\ UNCHANGED <<zone, pc, call, guesses, idx, probes, domain, update, sent, result,
                   zone0, prev, ncalls, credentials, client>>

\* The installer on a system with any of the executables on its path and
\* any of them configured as CLI_DEFAULTS['restart_cmd'].
InitExim ==
    /\ zone = {}
    /\ InitCallers
    /\ InitConfig({DefaultCredentials})
    /\ exim \in [path : SUBSET Executables, restart_cmd : Executables, log : {<<>>}]

NextExim ==
    \/ prepare
    \/ \E o \in ScriptOutcomes : restart(o)

SpecExim == InitExim /\ [][NextExim]_vars

(***************************************************************************)
(* Properties                                                              *)
(***************************************************************************)
\* The absolute name a text denotes, and the suffix relation on names.
Absolute(text) == IF text[Len(text)] = "" THEN text ELSE Append(text, "")
EndsWith(n, z) == Len(z) <= Len(n) /\ \A i \in 1..Len(z) : n[Len(n) - Len(z) + i] = z[i]
AllThree(r) == r.kind = "response" /\ r.rcode = "NOERROR" /\ r.answer >= 1 /\ r.aa = TRUE
GuessesOf(p) == [i \in 1..Len(probes[p]) |-> probes[p][i].guess]

\* C1 (as claimed): add_txt_record and del_txt_record never return success
\* unless the server answered the update with NOERROR; any other response
\* code ends the call with an error.
C1_SuccessOnlyOnNoerror ==
    \A p \in Procs :
        \A i \in 1..Len(sent[p]) :
            (pc[p] = "done" /\ sent[p][i].outcome.kind = "response"
                /\ sent[p][i].outcome.rcode # "NOERROR")
            => result[p].kind = "PluginError"

\* C2: the name _find_domain returns is the first guess, in the order of the
\* candidate list, whose response has rcode NOERROR, an answer and the AA
\* flag: every guess probed before it lacked one of the three, it is the
\* last guess probed, and the guesses were probed in order.
C2_FirstAuthoritative ==
    \A p \in Procs :
        domain[p] # <<>> =>
            LET k == Len(probes[p])
            IN  /\ k >= 1
                /\ domain[p] = guesses[p][k]
                /\ \A i \in 1..k : probes[p][i].guess = guesses[p][i]
                /\ AllThree(probes[p][k].outcome)
                /\ \A i \in 1..(k - 1) :
                      /\ probes[p][i].outcome.kind = "response"
                      /\ ~AllThree(probes[p][i].outcome)

C2_Witness ==
    \E p \in Procs :
        /\ Len(guesses[p]) = 3
        /\ Len(probes[p]) = 2
        /\ domain[p] = guesses[p][2]
        /\ probes[p][1].outcome = [kind |-> "response", rcode |-> "NOERROR",
                                   answer |-> 1, aa |-> FALSE]
        /\ pc[p] = "done"

\* C3: when every candidate was probed, each probe was answered and no
\* answer was authoritative, the call ends with a PluginError that names
\* the name given and lists the candidates probed, in order, and no update
\* is built or transmitted.
C3_ExhaustedFails ==
    \A p \in Procs :
        (/\ pc[p] = "done"
         /\ Len(guesses[p]) >= 1
         /\ Len(probes[p]) = Len(guesses[p])
         /\ \A i \in 1..Len(probes[p]) :
               probes[p][i].outcome.kind = "response" /\ ~AllThree(probes[p][i].outcome))
        => /\ result[p].kind = "PluginError"
           /\ result[p].name = call[p].domain_name
           /\ result[p].names = GuessesOf(p)
           /\ sent[p] = <<>>
           /\ update[p].op = "none"
           /\ zone = zone0[p]

C3_Witness ==
    \E p \in Procs :
        /\ pc[p] = "done"
        /\ Len(probes[p]) = 3
        /\ \A i \in 1..3 : ~AllThree(probes[p][i].outcome)
        /\ \A i \in 1..3 : probes[p][i].outcome.kind = "response"
        /\ result[p].names = <<Host(3), Host(2), Host(1)>>
        /\ call[p].op = "add"

\* C4: a probe that ends in a transport failure is the last probe of the
\* call: the call ends at once with a PluginError for the query, no zone is
\* returned and no update is built or transmitted.
C4_ProbeFailureIsTerminal ==
    \A p \in Procs :
        \A i \in 1..Len(probes[p]) :
            probes[p][i].outcome.kind = "exception" =>
                /\ i = Len(probes[p])
                /\ pc[p] = "done"
                /\ result[p].kind = "PluginError"
                /\ result[p].cause = "query"
                /\ domain[p] = <<>>
                /\ update[p].op = "none"
                /\ sent[p] = <<>>

C4_Witness ==
    \E p \in Procs :
        /\ Len(guesses[p]) = 3
        /\ Len(probes[p]) = 2
        /\ probes[p][1].outcome.kind = "response"
        /\ probes[p][2].outcome.kind = "exception"
        /\ result[p].kind = "PluginError"

\* C5 (as claimed): a call that ends without the server having answered its
\* update with NOERROR ends with a PluginError, whatever went wrong.
C5_EveryFailureIsPluginError ==
    \A p \in Procs :
        (pc[p] = "done" /\ ~got_noerror(p)) => result[p].kind = "PluginError"

\* C8: when the record name of add_txt_record lies below the zone found,
\* the update built, and the update transmitted, has that zone as its zone
\* and one TXT addition whose owner is the record name without the labels of
\* the zone, with the ttl and the text given.
C8_AddUpdateContents ==
    \A p \in Procs :
        (call[p].op = "add" /\ update[p].op # "none") =>
            LET m == update[p]
                n == Absolute(call[p].record_name)
                z == Absolute(domain[p])
            IN  /\ m.op = "add"
                /\ m.zone = z
                /\ m.ttl = call[p].record_ttl
                /\ m.text = call[p].record_content
                /\ EndsWith(n, z) =>
                      /\ Len(m.name) = Len(n) - Len(z)
                      /\ \A i \in 1..Len(m.name) : m.name[i] = n[i]
                /\ \A i \in 1..Len(sent[p]) : sent[p][i].msg = m

C8_Witness ==
    \E p \in Procs :
        /\ call[p].op = "add"
        /\ call[p].record_name = <<"_acme-challenge", "www", "example", "com">>
        /\ domain[p] = <<"example", "com">>
        /\ call[p].record_ttl = 0
        /\ Len(sent[p]) = 1
        /\ sent[p][1].msg.zone = <<"example", "com", "">>
        /\ sent[p][1].msg.name = <<"_acme-challenge", "www">>

\* C9 (as claimed): every update transmitted has an owner name that is
\* relative to the zone found for the call, whatever names were passed.
C9_OwnerAlwaysRelative ==
    \A p \in Procs :
        \A i \in 1..Len(sent[p]) :
            LET m == sent[p][i].msg
            IN  /\ m.zone = Absolute(domain[p])
                /\ (m.name = <<>> \/ m.name[Len(m.name)] # "")

\* C9 (amended): an update transmitted for a record name that lies below
\* the zone found for the call (as the record name of every _perform and
\* _cleanup does) has an owner name relative to that zone, which with the
\* zone appended is the record name; for a record name outside that zone the
\* owner transmitted is the absolute record name itself.
C9_OwnerRelativeWhenBelowZone ==
    \A p \in Procs :
        \A i \in 1..Len(sent[p]) :
            LET m == sent[p][i].msg
                n == Absolute(call[p].record_name)
                z == Absolute(domain[p])
            IN  /\ m.zone = z
                /\ call[p].record_name = <<ChallengeLabel>> \o call[p].domain_name
                      => EndsWith(n, z)
                /\ EndsWith(n, z) =>
                      /\ (m.name = <<>> \/ m.name[Len(m.name)] # "")
                      /\ m.name \o z = n
                /\ ~EndsWith(n, z) => m.name = n

C9_Witness ==
    \E p \in Procs :
        /\ call[p].op = "del"
        /\ Len(sent[p]) = 1
        /\ domain[p] = <<"example", "com">>
        /\ call[p].record_name = <<"_acme-challenge", "www", "example", "com">>
        /\ sent[p][1].msg.name = <<"_acme-challenge", "www">>

\* C10: the candidates of a call are the name given without a leading
\* challenge label, then each time the previous candidate without its
\* leftmost label, down to a single label; none contains the challenge
\* label; and they are probed in that order, none skipped.
C10_CandidateOrder ==
    \A p \in Procs :
        call[p].op # "none" =>
            LET g == guesses[p]
                d == call[p].domain_name
            IN  /\ Len(g) >= 1
                /\ g[1] = IF d[1] = ChallengeLabel THEN Tail(d) ELSE d
                /\ \A i \in 2..Len(g) : g[i] = Tail(g[i - 1])
                /\ Len(g[Len(g)]) = 1
                /\ \A i \in 1..Len(g) : \A j \in 1..Len(g[i]) : g[i][j] # ChallengeLabel
                /\ Len(probes[p]) <= Len(g)
                /\ \A i \in 1..Len(probes[p]) : probes[p][i].guess = g[i]

C10_Witness ==
    \E p \in Procs :
        /\ call[p].domain_name = <<"_acme-challenge", "www", "example", "com">>
        /\ guesses[p] = << <<"www", "example", "com">>, <<"example", "com">>, <<"com">> >>
        /\ GuessesOf(p) = guesses[p]

\* The server holds a TXT record of this name and text in z.
Holds(z, name, text) == \E r \in z : r[1] = Absolute(name) /\ r[3] = text

\* The call just completed repeats the record name and content of the call
\* before it, and the server answered both updates with NOERROR.
SamePairAfter(p, op1, op2) ==
    /\ pc[p] = "done"
    /\ call[p].op = op2
    /\ got_noerror(p)
    /\ prev[p].op = op1
    /\ prev[p].noerror
    /\ prev[p].record_name = call[p].record_name
    /\ prev[p].record_content = call[p].record_content

\* C6 (as claimed): whatever records the server held, an add answered
\* NOERROR followed by a delete of the same name and value answered NOERROR
\* leaves the server's records as they were before the add.
C6_RoundTripAnyZone ==
    \A p \in Procs :
        SamePairAfter(p, "add", "del") => zone = prev[p].zone0

\* C6 (amended): when the server did not already hold a TXT record of that
\* name and value, an add answered NOERROR followed by a delete of the same
\* name and value answered NOERROR leaves the server's records as they were
\* before the add.
C6_RoundTripWhenAbsent ==
    \A p \in Procs :
        (/\ SamePairAfter(p, "add", "del")
         /\ ~Holds(prev[p].zone0, call[p].record_name, call[p].record_content))
        => zone = prev[p].zone0

C6_Witness ==
    \E p \in Procs :
        /\ SamePairAfter(p, "add", "del")
        /\ ~Holds(prev[p].zone0, call[p].record_name, call[p].record_content)
        /\ Holds(zone0[p], call[p].record_name, call[p].record_content)
        /\ Cardinality(prev[p].zone0) = 2
        /\ zone = prev[p].zone0

\* C7: a delete of a name and value the server does not hold, answered
\* NOERROR, returns normally and leaves the server's records unchanged; so
\* does the second of two deletes of the same name and value.
C7_DeleteAbsentIsNoop ==
    \A p \in Procs :
        /\ (/\ pc[p] = "done"
            /\ call[p].op = "del"
            /\ got_noerror(p)
            /\ ~Holds(zone0[p], call[p].record_name, call[p].record_content))
           => (result[p].kind = "ok" /\ zone = zone0[p])
        /\ SamePairAfter(p, "del", "del")
           => (result[p].kind = "ok" /\ zone = zone0[p])

C7_Witness ==
    \E p \in Procs :
        /\ SamePairAfter(p, "del", "del")
        /\ Holds(prev[p].zone0, call[p].record_name, call[p].record_content)
        /\ zone # {}
        /\ zone = zone0[p]
        /\ result[p].kind = "ok"

\* C11: prepare fails with NoInstallationError exactly when the restart
\* command is not on the system path and returns otherwise; restart fails
\* with MisconfigurationError whenever the command could not be started or
\* exited with a failure, returns otherwise, and never ends with the
\* SubprocessError itself.
C11_InstallerErrors ==
    \A i \in 1..Len(exim.log) :
        LET e == exim.log[i]
        IN  /\ e.op = "prepare" =>
                  /\ e.result = "NoInstallationError" <=> exim.restart_cmd \notin exim.path
                  /\ e.result = "returned" <=> exim.restart_cmd \in exim.path
            /\ e.op = "restart" =>
                  /\ e.outcome \in {"cannot start", "exit status"}
                        <=> e.result = "MisconfigurationError"
                  /\ e.outcome = "output" <=> e.result = "returned"
                  /\ e.result # "SubprocessError"

C11_Witness ==
    /\ Len(exim.log) = 2
    /\ exim.log[1].op = "prepare"
    /\ exim.log[1].result = "returned"
    /\ exim.log[2].op = "restart"
    /\ exim.log[2].outcome = "exit status"
    /\ exim.log[2].result = "MisconfigurationError"

\* C12: an update is built, and transmitted, only after a probe of the same
\* call was answered authoritatively; that probe is the last one of the
\* call and its name is the zone of the update.
C12_ResolveBeforeUpdate ==
    \A p \in Procs :
        (update[p].op # "none" \/ sent[p] # <<>>) =>
            LET k == Len(probes[p])
            IN  /\ k >= 1
                /\ AllThree(probes[p][k].outcome)
                /\ update[p].zone = Absolute(probes[p][k].guess)
                /\ \A i \in 1..Len(sent[p]) :
                      sent[p][i].msg.zone = Absolute(probes[p][k].guess)

C12_Witness ==
    \E p \in Procs :
        /\ Len(probes[p]) = 3
        /\ probes[p][3].guess = <<"com">>
        /\ Len(sent[p]) = 1
        /\ sent[p][1].msg.zone = <<"com", "">>
        /\ sent[p][1].msg.op = "delete"

\* A probe or the update of the call of p ended in a network failure.
NetworkFailure(p) ==
    \/ \E i \in 1..Len(probes[p]) : probes[p][i].outcome.kind = "exception"
    \/ \E i \in 1..Len(sent[p]) : sent[p][i].outcome.kind = "exception"

\* C13: in every step, a call has transmitted at most one update and has
\* probed no candidate twice, and a call that has seen a network failure
\* sends no further probe and no further update.
C13_NoRetry ==
    [][\A p \in Procs :
          /\ Len(sent'[p]) <= 1
          /\ \A i, j \in 1..Len(probes'[p]) :
                i # j => probes'[p][i].guess # probes'[p][j].guess
          /\ (NetworkFailure(p) /\ call'[p] = call[p])
                => (probes'[p] = probes[p] /\ sent'[p] = sent[p])]_vars

C13_Witness ==
    \E p \in Procs :
        /\ Len(probes[p]) = 3
        /\ Len(sent[p]) = 1
        /\ sent[p][1].outcome.kind = "exception"
        /\ result[p].kind = "PluginError"
        /\ pc[p] = "done"

\* C15: every SOA query sent by _find_domain has the Recursion-Desired flag
\* cleared.
C15_RecursionNotDesired ==
    \A p \in Procs :
        \A i \in 1..Len(probes[p]) :
            probes[p][i].rdtype = "SOA" /\ "RD" \notin probes[p][i].flags

C15_Witness ==
    \E p \in Procs :
        /\ Len(probes[p]) = 3
        /\ \A i \in 1..3 : probes[p][i].flags = {}
        /\ call[p].op = "del"

\* C14: a delete answered NOERROR removes the TXT records of exactly that
\* name and value and leaves every other record of the server as it was,
\* records of the same name with another value and records of another name
\* with the same value included.
C14_DeleteOnlyExactMatch ==
    \A p \in Procs :
        (pc[p] = "done" /\ call[p].op = "del") =>
            /\ \A r \in zone0[p] :
                  (r[1] # Absolute(call[p].record_name) \/ r[3] # call[p].record_content)
                      => r \in zone
            /\ \A r \in zone :
                  /\ r \in zone0[p]
                  /\ got_noerror(p) =>
                        (r[1] # Absolute(call[p].record_name)
                            \/ r[3] # call[p].record_content)

C14_Witness ==
    \E p \in Procs :
        /\ pc[p] = "done" /\ call[p].op = "del" /\ got_noerror(p)
        /\ call[p].record_name = <<"_acme-challenge", "example", "com">>
        /\ call[p].record_content = "tokenA"
        /\ Cardinality(zone0[p]) = 3
        /\ zone = {<<<<"_acme-challenge", "example", "com", "">>, OtherTtl, "tokenB">>,
                   <<<<"_acme-challenge", "com", "">>, OtherTtl, "tokenA">>}

\* C16: of two concurrent add_txt_record calls with different (name, value)
\* pairs against a server that applies each update and answers NOERROR, each
\* one succeeds exactly when its own last probe was answered
\* authoritatively, whatever the other call has done so far, and the record
\* of a call that succeeded stays on the server, with the TTL of the call,
\* whatever the other call does afterwards.
C16_ConcurrentAddsIndependent ==
    \A p \in Procs :
        pc[p] = "done" =>
            LET k == Len(probes[p])
            IN  /\ result[p] = returned <=> (k >= 1 /\ AllThree(probes[p][k].outcome))
                /\ result[p] = returned =>
                      <<Absolute(call[p].record_name), call[p].record_ttl,
                        call[p].record_content>> \in zone
                /\ \A r \in zone :
                      \/ r \in zone0[p]
                      \/ \E q \in Procs :
                            /\ call[q].op = "add"
                            /\ r[1] = Absolute(call[q].record_name)
                            /\ r[3] = call[q].record_content

C16_Witness ==
    /\ zone0[1] = {} /\ zone0[2] = {}
    /\ pc[1] = "done" /\ pc[2] = "done"
    /\ result[1] = returned /\ result[2] = returned
    /\ call[1].record_name = call[2].record_name
    /\ call[1].record_content # call[2].record_content
    /\ Len(probes[1]) = 2 /\ Len(probes[2]) = 1
    /\ Cardinality(zone) = 2

\* What the server gave back to the call of p: the outcome of each probe and
\* of each update.
Responses(p) ==
    <<[i \in 1..Len(probes[p]) |-> probes[p][i].outcome],
      [i \in 1..Len(sent[p]) |-> sent[p][i].outcome]>>

\* C17: whatever calls a client has made, its server, keyring and algorithm
\* are the ones it was constructed with, every update carries them, and two
\* completed calls with the same arguments and the same responses of the
\* server have the same outcome and sent the same messages, whatever calls
\* came before them.
C17_ClientStateless ==
    /\ \A p \in Procs :
          /\ client[p] = RFC2136Client(credentials.server, credentials.name,
                                       credentials.secret, credentials.algorithm)
          /\ \A i \in 1..Len(sent[p]) :
                /\ sent[p][i].to = credentials.server
                /\ sent[p][i].msg.keyring = client[p].keyring
                /\ sent[p][i].msg.keyalgorithm = client[p].algorithm
    /\ \A p, q \in Procs :
          (pc[p] = "done" /\ pc[q] = "done" /\ call[p] = call[q]
              /\ Responses(p) = Responses(q))
            => (result[p] = result[q] /\ probes[p] = probes[q] /\ sent[p] = sent[q])

C17_Witness ==
    /\ pc[1] = "done" /\ pc[2] = "done"
    /\ ncalls[1] = 1 /\ ncalls[2] = 0
    /\ prev[1].op = "del" /\ ~prev[1].noerror
    /\ call[1] = call[2] /\ call[1].op = "add"
    /\ Responses(1) = Responses(2)
    /\ Len(probes[1]) = 2 /\ Len(sent[1]) = 1
    /\ credentials.algorithm = "HMAC-SHA384"

\* The algorithm dnspython signs with for each of the six supported names,
\* written out name by name.
Named(a) ==
    CASE a = "HMAC-MD5" -> "HMAC-MD5.SIG-ALG.REG.INT"
      [] a = "HMAC-SHA1" -> "hmac-sha1"
      [] a = "HMAC-SHA224" -> "hmac-sha224"
      [] a = "HMAC-SHA256" -> "hmac-sha256"
      [] a = "HMAC-SHA384" -> "hmac-sha384"
      [] a = "HMAC-SHA512" -> "hmac-sha512"
Supported ==
    {"HMAC-MD5", "HMAC-SHA1", "HMAC-SHA224", "HMAC-SHA256", "HMAC-SHA384", "HMAC-SHA512"}

\* C18: a client is constructed for every configured algorithm name; its
\* algorithm, and the algorithm every update is signed with, is the one
\* named when the name is one of the six supported names, and HMAC-MD5 for
\* any other name.
C18_AlgorithmSelection ==
    LET a == credentials.algorithm
        expected == IF a \in Supported THEN Named(a) ELSE "HMAC-MD5.SIG-ALG.REG.INT"
    IN  \A p \in Procs :
            /\ client[p].algorithm = expected
            /\ update[p].op # "none" => update[p].keyalgorithm = expected
            /\ \A i \in 1..Len(sent[p]) : sent[p][i].msg.keyalgorithm = expected

C18_Witness ==
    /\ credentials.algorithm = "hmac-sha256"
    /\ Len(sent[1]) = 1
    /\ sent[1][1].msg.keyalgorithm = "HMAC-MD5.SIG-ALG.REG.INT"
    /\ sent[1][1].outcome.rcode = NOERROR
    /\ pc[1] = "done"

\* C19: when every network call returns, a call that has started ends,
\* with success or with an error, and at every moment it has made at most
\* as many probes as its name has candidates and at most one update.
C19_Terminates ==
    /\ [](\A p \in Procs :
            /\ Len(probes[p]) <= Len(guesses[p])
            /\ Len(sent[p]) <= 1
            /\ pc[p] = "done" => result[p].kind \in {"ok", "PluginError", "dns.exception"})
    /\ \A p \in Procs : (pc[p] \in {"find", "build", "send"}) ~> (pc[p] = "done")

C19_Witness ==
    \E p \in Procs :
        /\ pc[p] = "done"
        /\ Len(guesses[p]) = MaxLabels
        /\ Len(probes[p]) = Len(guesses[p])
        /\ Len(sent[p]) = 1
        /\ result[p] = returned

====
